---- MODULE Spec2Model ----
(***************************************************************************)
(* Model of ai4sipmbda/training.py (preprocess_label, AugmentedClassifier, *)
(* do_classif / do_split) and of the hand-off file written by              *)
(* ai4sipmbda/pre_project_data.py.                                         *)
(*                                                                         *)
(* A Label Table is a sequence of rows [subject, contrast]; a numpy array  *)
(* or pandas column is a sequence; a boolean mask is a sequence of         *)
(* BOOLEAN aligned with the rows; a Python dict is a function; a path is   *)
(* a sequence of string tokens; the file system is a function from paths   *)
(* to file contents.                                                       *)
(***************************************************************************)
EXTENDS Integers, Sequences, FiniteSets, TLC

VARIABLES
    labels,         \* do_classif argument: the Label Table
    n_splits,       \* do_classif argument
    train_size,     \* do_classif argument (absolute number of train subjects)
    f,              \* do_classif argument: augmentation function or None
    fs,             \* the file system: path -> file content
    pre,            \* the pre-projection driver: [ran, output_path, X_test]
    pc,             \* position of do_classif / do_split
    projected_X,    \* do_classif local
    i_model,        \* position in the catalog `models` (1-based)
    subjects,       \* do_classif local
    i_split,        \* enumerate index of the split generator
    sfPerms,        \* permutations drawn by ShuffleSplit(random_state=0)
    split,          \* the (train, test) index arrays the generator yielded
    ds,             \* locals of the running do_split call
    scores_split,   \* do_classif local: scores of the current model
    scores,         \* do_classif local: accumulated score tuples
    warnings,       \* number of logging.warning calls
    trace,          \* blocking calls made so far, in order
    enc,            \* one call of preprocess_label: its input and output
    aug             \* an AugmentedClassifier next to its wrapped model used directly

vars == <<labels, n_splits, train_size, f, fs, pre, pc, projected_X, i_model,
          subjects, i_split, sfPerms, split, ds, scores_split, scores,
          warnings, trace, enc, aug>>

classifVars == <<labels, n_splits, train_size, f, fs, pre, pc, projected_X,
                 i_model, subjects, i_split, sfPerms, split, ds, scores_split,
                 scores, warnings, trace>>

-----------------------------------------------------------------------------
(* Bounds of the model *)

MaxRows == 3
MaxSubjects == 2
MaxSplits == 2

SubjectIds == {10 * s : s \in 1..MaxSubjects}
Contrasts == {"A", "B"}
Scores == {0, 1}

Rows == [subject : SubjectIds, contrast : Contrasts]

RECURSIVE SeqsUpTo(_, _)
SeqsUpTo(S, n) ==
    IF n = 0 THEN {<<>>}
    ELSE LET shorter == SeqsUpTo(S, n - 1)
         IN shorter \cup {Append(s, x) : s \in {t \in shorter : Len(t) = n - 1}, x \in S}

LabelTables == SeqsUpTo(Rows, MaxRows)

\* Inputs of the specification of preprocess_label alone
MaxLabelRows == 4
LabelContrasts == {"A", "B", "C"}
WideLabelTables == SeqsUpTo([subject : SubjectIds, contrast : LabelContrasts], MaxLabelRows)

\* Inputs of the specification of AugmentedClassifier alone
XArrays == {<<1>>, <<1, 2>>}
YArrays == {<<0>>, <<0, 1>>}

-----------------------------------------------------------------------------
(* Python / numpy / pandas helpers *)

None == [none |-> TRUE]

Range(s) == {s[i] : i \in 1..Len(s)}

Front(s) == SubSeq(s, 1, Len(s) - 1)

\* DataFrame["col"]
Column(Y, col) == [i \in 1..Len(Y) |-> Y[i][col]]

\* A unique() that keeps the order of last occurrence
RECURSIVE unique_lastOccurrence(_)
unique_lastOccurrence(s) ==
    IF s = <<>> THEN <<>>
    ELSE LET r == unique_lastOccurrence(Tail(s))
         IN IF Head(s) \in Range(r) THEN r ELSE <<Head(s)>> \o r

\* Series.unique(): distinct values in order of first occurrence
RECURSIVE unique(_)
unique(s) ==
    IF s = <<>> THEN <<>>
    ELSE LET r == unique(Front(s))
             x == s[Len(s)]
         IN IF x \in Range(r) THEN r ELSE Append(r, x)

\* {v: k for k, v in enumerate(u)}: a later k overwrites an earlier one
EnumerateDict(u) ==
    [v \in Range(u) |->
        CHOOSE k \in 0..(Len(u) - 1) :
            /\ u[k + 1] = v
            /\ \A j \in (k + 1)..(Len(u) - 1) : u[j + 1] # v]

\* Series.isin(values): boolean mask
isin(col, values) == [i \in 1..Len(col) |-> col[i] \in Range(values)]

\* Y[mask], array[mask]: rows where the mask is True, in order
RECURSIVE BoolIndex(_, _)
BoolIndex(a, mask) ==
    IF a = <<>> THEN <<>>
    ELSE LET r == BoolIndex(Front(a), Front(mask))
         IN IF mask[Len(a)] THEN Append(r, a[Len(a)]) ELSE r

\* subjects[idx]: fancy indexing by a 0-based index array
Take(a, idx) == [i \in 1..Len(idx) |-> a[idx[i] + 1]]

\* str(i) as a sequence of digit tokens
Digit == <<"0", "1", "2", "3", "4", "5", "6", "7", "8", "9">>

RECURSIVE IntToStr(_)
IntToStr(i) ==
    IF i < 10 THEN <<Digit[i + 1]>>
    ELSE IntToStr(i \div 10) \o <<Digit[(i % 10) + 1]>>

\* pathlib: dir / name
PathJoin(dir, name) == dir \o <<"/", name>>

-----------------------------------------------------------------------------
(* preprocess_label *)

Returned(v) == [exc |-> "none", value |-> v]
Raised(e) == [exc |-> e, value |-> None]

\* Y_t["contrast"].apply(lambda x: Y_dict[x]).values
ApplyDict(col, Y_dict) ==
    IF \E i \in 1..Len(col) : col[i] \notin DOMAIN Y_dict
    THEN Raised("KeyError")
    ELSE Returned([i \in 1..Len(col) |-> Y_dict[col[i]]])

\* A preprocess_label that ignores use_dict and always builds its own dictionary
preprocess_label_ignoreDict(Y_t, use_dict, return_dict) ==
    LET Y_dict == EnumerateDict(unique(Column(Y_t, "contrast")))
        applied == ApplyDict(Column(Y_t, "contrast"), Y_dict)
    IN IF return_dict THEN Returned(<<applied.value, Y_dict>>) ELSE applied

preprocess_label(Y_t, use_dict, return_dict) ==
    LET Y_dict == IF use_dict = None
                  THEN EnumerateDict(unique(Column(Y_t, "contrast")))
                  ELSE use_dict
        applied == ApplyDict(Column(Y_t, "contrast"), Y_dict)
    IN IF applied.exc # "none" THEN applied
       ELSE IF return_dict THEN Returned(<<applied.value, Y_dict>>)
       ELSE applied

-----------------------------------------------------------------------------
(* The wrapped classifiers (sklearn estimators) and AugmentedClassifier *)

\* models.append((LinearDiscriminantAnalysis(...), "LDA")); models.append((RandomForestClassifier(...), "RF"))
models == <<[model |-> [cls |-> "LinearDiscriminantAnalysis", fitted |-> None], name |-> "LDA"],
            [model |-> [cls |-> "RandomForestClassifier", fitted |-> None], name |-> "RF"]>>

\* Positional parameters (after self) of a classifier's fit(X, y), predict(X), score(X, y)
EstimatorArity == [fit |-> 2, predict |-> 1, score |-> 2]

\* One method call on a wrapped classifier: the classifier afterwards and
\* what the call returned or raised.  What predict and score return is
\* opaque: it is kept as the call itself on the fitted state.
ModelCall(model, op, args) ==
    IF Len(args) # EstimatorArity[op]
    THEN [model |-> model, result |-> Raised("TypeError")]
    ELSE IF op = "fit"
    THEN [model |-> [model EXCEPT !.fitted = args], result |-> Returned([self |-> TRUE])]
    ELSE IF model.fitted = None
    THEN [model |-> model, result |-> Raised("NotFittedError")]
    ELSE [model |-> model,
          result |-> Returned([op |-> op, fitted |-> model.fitted, args |-> args])]

\* The augmentation function f: (X, Y) -> (X_fake, Y_fake); the one modelled
\* appends a copy of the data to itself.
fDup == [name |-> "dup"]
ApplyF(fn, X, Y) == <<X \o X, Y \o Y>>

\* AugmentedClassifier.__init__
AugmentedClassifier(model, fn) == [model |-> model, f |-> fn]

\* AugmentedClassifier.fit(self, X, Y)
AugFit(clf, args) ==
    IF Len(args) # 2 THEN [model |-> clf.model, result |-> Raised("TypeError")]
    ELSE IF clf.f = None THEN ModelCall(clf.model, "fit", <<args[1], args[2]>>)
    ELSE LET fake == ApplyF(clf.f, args[1], args[2])
         IN ModelCall(clf.model, "fit", <<fake[1], fake[2]>>)

\* AugmentedClassifier.predict(self, X, y)
AugPredict(clf, args) ==
    IF Len(args) # 2 THEN [model |-> clf.model, result |-> Raised("TypeError")]
    ELSE ModelCall(clf.model, "predict", <<args[1], args[2]>>)

\* AugmentedClassifier.score(self, X, y)
AugScore(clf, args) ==
    IF Len(args) # 2 THEN [model |-> clf.model, result |-> Raised("TypeError")]
    ELSE ModelCall(clf.model, "score", <<args[1], args[2]>>)

AugCall(clf, op, args) ==
    IF op = "fit" THEN AugFit(clf, args)
    ELSE IF op = "predict" THEN AugPredict(clf, args)
    ELSE AugScore(clf, args)

-----------------------------------------------------------------------------
(* Files *)

\* np.load('../hcp900_difumo_matrics/difumo_data.npy') in do_classif
FeatureMatrixPath == <<"..", "/", "hcp900_difumo_matrics", "/", "difumo_data.npy">>

\* --output_path default of the pre-projection driver
DefaultOutputPath == <<"..", "/", "hcp900_difumo_matrices", "/", "difumo_data.npy">>

OtherOutputPath == <<"elsewhere", "/", "difumo_data.npy">>

\* Arguments of do_classif that the model keeps fixed
method_name == "method"
output_fname == <<"results.csv">>
models_dir == <<"models">>

\* The arrays project_to_difumo can return, and an array already on disk
ProjectedArrays == {[array |-> "projected"]}
StaleArray == [array |-> "stale"]

NoFiles == [p \in {} |-> None]

WriteFile(files, path, content) ==
    [q \in (DOMAIN files) \cup {path} |-> IF q = path THEN content ELSE files[q]]

Event(ev, path, algo, split_index, ok, value) ==
    [ev |-> ev, path |-> path, algo |-> algo, split |-> split_index, ok |-> ok, value |-> value]

-----------------------------------------------------------------------------
(* do_split *)

\* A do_split that scores before it writes the checkpoint
do_split_steps_scoreFirst == <<"fit", "score", "dump">>

\* The order of the blocking steps of do_split after the labels are prepared
do_split_steps == <<"fit", "dump", "score">>

\* A checkpoint name without the split index
CheckpointName_noIndex(checkpoint_base_name, i) == checkpoint_base_name \o <<".pkl">>

\* f"{checkpoint_base_name}_{i_split}.pkl"
CheckpointName(checkpoint_base_name, i) ==
    checkpoint_base_name \o <<"_">> \o IntToStr(i) \o <<".pkl">>

\* The split's positions used as if they were subject identifiers
SplitSubjects_noLookup(subj, idx) == idx

\* train, test = subjects[train], subjects[test]
SplitSubjects(subj, idx) == Take(subj, idx)

\* The test labels without the except clause
TryTestLabels_noCatch(Y_test_rows, labels_dict) ==
    [result |-> preprocess_label(Y_test_rows, labels_dict, FALSE), warned |-> FALSE]

\* try: preprocess_label(Y[test], use_dict=labels_dict)
\* except KeyError: warning(...); preprocess_label(Y[test])
TryTestLabels(Y_test_rows, labels_dict) ==
    LET first == preprocess_label(Y_test_rows, labels_dict, FALSE)
    IN IF first.exc = "KeyError"
       THEN [result |-> preprocess_label(Y_test_rows, None, FALSE), warned |-> TRUE]
       ELSE [result |-> first, warned |-> FALSE]

NoLocals ==
    [checkpoint_name |-> <<>>, train_subj |-> <<>>, test_subj |-> <<>>,
     train |-> <<>>, test |-> <<>>, Y_train |-> <<>>, labels_dict |-> None,
     Y_test |-> <<>>, X_train |-> <<>>, X_test |-> None, clf |-> None,
     score_split |-> 0, warned |-> FALSE, exc |-> "none"]

\* do_split up to "starting fit": the locals it has computed
PrepareSplit(sp, data_paths, X, Y, subj, checkpoint_base_name, i) ==
    LET checkpoint_name == CheckpointName(checkpoint_base_name, i)
        train_subj == SplitSubjects(subj, sp.train)
        test_subj == SplitSubjects(subj, sp.test)
        train == isin(Column(Y, "subject"), train_subj)
        test == isin(Column(Y, "subject"), test_subj)
        tr == preprocess_label(BoolIndex(Y, train), None, TRUE)
        te == TryTestLabels(BoolIndex(Y, test), tr.value[2])
    IN [checkpoint_name |-> checkpoint_name,
        train_subj |-> train_subj, test_subj |-> test_subj,
        train |-> train, test |-> test,
        Y_train |-> tr.value[1], labels_dict |-> tr.value[2],
        Y_test |-> IF te.result.exc = "none" THEN te.result.value ELSE <<>>,
        X_train |-> BoolIndex(data_paths, train),
        X_test |-> [matrix |-> X, rows |-> BoolIndex([r \in 1..Len(Y) |-> r], test)],
        clf |-> None, score_split |-> 0, warned |-> te.warned,
        exc |-> te.result.exc]

\* The step after `step` in do_split, or "return"
StepAfter(step) ==
    LET k == CHOOSE j \in 1..Len(do_split_steps) : do_split_steps[j] = step
    IN IF k = Len(do_split_steps) THEN "return" ELSE do_split_steps[k + 1]

-----------------------------------------------------------------------------
(* ShuffleSplit *)

\* rng.permutation(n_samples): the orders of the indices 0..n-1
IndexPermutations(n) ==
    {p \in [1..n -> 0..(n - 1)] : \A i, j \in 1..n : i # j => p[i] # p[j]}

\* ind_test = permutation[:n_test]; ind_train = permutation[n_test:n_test + n_train]
\* with test_size=None: n_test = n_samples - n_train
ShuffleSplitIndices(perm, n_train) ==
    LET n == Len(perm)
        n_test == n - n_train
    IN [train |-> SubSeq(perm, n_test + 1, n_test + n_train),
        test |-> SubSeq(perm, 1, n_test)]

\* _validate_shuffle_split raises ValueError unless 0 < train_size < n_samples
ValidShuffleSplit(n, n_train) == n_train > 0 /\ n_train < n

-----------------------------------------------------------------------------
(* do_classif *)

\* images_path: one image path per row of the Label Table
images_path == [r \in 1..Len(labels) |-> <<"img", r>>]

\* A collection loop that numbers the splits from 1
CollectScores_oneBased(acc, name, per_split) ==
    acc \o [k \in 1..Len(per_split) |->
              [method_name |-> method_name, algo |-> name,
               score |-> per_split[k], split |-> k]]

\* for i_split, score_split in enumerate(scores_split): scores.append(...)
CollectScores(acc, name, per_split) ==
    acc \o [k \in 1..Len(per_split) |->
              [method_name |-> method_name, algo |-> name,
               score |-> per_split[k], split |-> k - 1]]

\* A catalog loop that stops after its first model
MoreModels_never(i) == FALSE

\* for model, name in models: is there a next catalog entry
MoreModels(i) == i < Len(models)

Log(e) == trace' = Append(trace, e)

Fail == pc' = "failed"

\* pre_project_data.py __main__: project the images and np.save them
\* (run, if at all, before the training driver starts)
PreProject ==
    /\ pc = "start"
    /\ ~pre.ran
    /\ \E out \in {DefaultOutputPath, OtherOutputPath}, X \in ProjectedArrays :
          /\ pre' = [ran |-> TRUE, output_path |-> out, X_test |-> X]
          /\ fs' = WriteFile(fs, out, [kind |-> "npy", data |-> X])
          /\ Log(Event("np.save", out, "", 0, TRUE, X))
    /\ UNCHANGED <<labels, n_splits, train_size, f, pc, projected_X, i_model,
                   subjects, i_split, sfPerms, split, ds, scores_split, scores,
                   warnings, enc, aug>>

\* do_classif: scores = []; models_dir.mkdir; projected_X = np.load(...)
LoadFeatures ==
    /\ pc = "start"
    /\ IF FeatureMatrixPath \in DOMAIN fs
       THEN /\ projected_X' = fs[FeatureMatrixPath].data
            /\ pc' = "for_model"
            /\ Log(Event("np.load", FeatureMatrixPath, "", 0, TRUE, fs[FeatureMatrixPath].data))
       ELSE /\ Fail
            /\ Log(Event("np.load", FeatureMatrixPath, "", 0, FALSE, None))
            /\ UNCHANGED projected_X
    /\ scores' = <<>>
    /\ i_model' = 1
    /\ UNCHANGED <<labels, n_splits, train_size, f, fs, pre, subjects, i_split,
                   sfPerms, split, ds, scores_split, warnings, enc, aug>>

\* for model, name in models: subjects = ...; sf = ShuffleSplit(...); model_fname = ...
ForModel ==
    /\ pc = "for_model"
    /\ subjects' = unique(Column(labels, "subject"))
    /\ i_split' = 0
    /\ scores_split' = <<>>
    /\ pc' = "next_split"
    /\ UNCHANGED <<labels, n_splits, train_size, f, fs, pre, projected_X, i_model,
                   sfPerms, split, ds, scores, warnings, trace, enc, aug>>

\* for i_split, split in enumerate(sf.split(range(len(subjects)))): the
\* generator yields the next split, is exhausted, or raises ValueError.
\* random_state=0: every pass over sf.split draws the same permutations.
NextSplit ==
    /\ pc = "next_split"
    /\ IF ~ValidShuffleSplit(Len(subjects), train_size)
       THEN Fail /\ UNCHANGED <<sfPerms, split>>
       ELSE IF i_split = n_splits
       THEN pc' = "collect" /\ UNCHANGED <<sfPerms, split>>
       ELSE /\ \E perm \in IndexPermutations(Len(subjects)) :
                 /\ IF i_split < Len(sfPerms)
                    THEN perm = sfPerms[i_split + 1] /\ UNCHANGED sfPerms
                    ELSE sfPerms' = Append(sfPerms, perm)
                 /\ split' = ShuffleSplitIndices(perm, train_size)
            /\ pc' = "preprocess"
    /\ UNCHANGED <<labels, n_splits, train_size, f, fs, pre, projected_X, i_model,
                   subjects, i_split, ds, scores_split, scores, warnings, trace,
                   enc, aug>>

\* do_split from its first line to "starting fit"
Preprocess ==
    /\ pc = "preprocess"
    /\ LET loc == PrepareSplit(split, images_path, projected_X, labels, subjects,
                               PathJoin(models_dir, models[i_model].name), i_split)
       IN /\ ds' = loc
          /\ warnings' = IF loc.warned THEN warnings + 1 ELSE warnings
          /\ pc' = IF loc.exc = "none" THEN do_split_steps[1] ELSE "failed"
    /\ UNCHANGED <<labels, n_splits, train_size, f, fs, pre, projected_X, i_model,
                   subjects, i_split, sfPerms, split, scores_split, scores, trace,
                   enc, aug>>

\* After a step of do_split: go to the next step, or return score_split
\* into the list comprehension of do_classif
Continue(step, locals) ==
    IF StepAfter(step) = "return"
    THEN /\ scores_split' = Append(scores_split, locals.score_split)
         /\ i_split' = i_split + 1
         /\ pc' = "next_split"
    ELSE /\ pc' = StepAfter(step)
         /\ UNCHANGED <<scores_split, i_split>>

\* clf = AugmentedClassifier(model, f); clf.fit(X_train, Y_train)
Fit ==
    /\ pc = "fit"
    /\ LET clf == AugmentedClassifier(models[i_model].model, f)
           r == AugFit(clf, <<ds.X_train, ds.Y_train>>)
       IN \/ /\ r.result.exc = "none"
             /\ ds' = [ds EXCEPT !.clf = [clf EXCEPT !.model = r.model]]
             /\ Log(Event("fit", <<>>, models[i_model].name, i_split, TRUE, 0))
             /\ Continue("fit", ds)
          \/ /\ Fail
             /\ Log(Event("fit", <<>>, models[i_model].name, i_split, FALSE, 0))
             /\ UNCHANGED <<ds, scores_split, i_split>>
    /\ UNCHANGED <<labels, n_splits, train_size, f, fs, pre, projected_X, i_model,
                   subjects, sfPerms, split, scores, warnings, enc, aug>>

\* with open(checkpoint_name, "wb") as file: pickle.dump(clf, file)
Dump ==
    /\ pc = "dump"
    /\ \/ /\ fs' = WriteFile(fs, ds.checkpoint_name, [kind |-> "pkl", data |-> ds.clf])
          /\ Log(Event("dump", ds.checkpoint_name, models[i_model].name, i_split, TRUE, 0))
          /\ Continue("dump", ds)
       \/ /\ Fail
          /\ Log(Event("dump", ds.checkpoint_name, models[i_model].name, i_split, FALSE, 0))
          /\ UNCHANGED <<fs, scores_split, i_split>>
    /\ UNCHANGED <<labels, n_splits, train_size, f, pre, projected_X, i_model,
                   subjects, sfPerms, split, ds, scores, warnings, enc, aug>>

\* score_split = clf.score(X_test, Y_test)
Score ==
    /\ pc = "score"
    /\ LET r == AugScore(ds.clf, <<ds.X_test, ds.Y_test>>)
       IN \/ /\ r.result.exc = "none"
             /\ \E v \in Scores :
                   /\ ds' = [ds EXCEPT !.score_split = v]
                   /\ Log(Event("score", <<>>, models[i_model].name, i_split, TRUE, v))
                   /\ Continue("score", [ds EXCEPT !.score_split = v])
          \/ /\ Fail
             /\ Log(Event("score", <<>>, models[i_model].name, i_split, FALSE, 0))
             /\ UNCHANGED <<ds, scores_split, i_split>>
    /\ UNCHANGED <<labels, n_splits, train_size, f, fs, pre, projected_X, i_model,
                   subjects, sfPerms, split, scores, warnings, enc, aug>>

\* for i_split, score_split in enumerate(scores_split): scores.append(...),
\* then the next catalog model or the end of the loop
Collect ==
    /\ pc = "collect"
    /\ scores' = CollectScores(scores, models[i_model].name, scores_split)
    /\ IF MoreModels(i_model)
       THEN i_model' = i_model + 1 /\ pc' = "for_model"
       ELSE pc' = "write" /\ UNCHANGED i_model
    /\ UNCHANGED <<labels, n_splits, train_size, f, fs, pre, projected_X,
                   subjects, i_split, sfPerms, split, ds, scores_split, warnings,
                   trace, enc, aug>>

\* scores = pd.DataFrame(scores, columns=[...]); scores.to_csv(output_fname)
WriteScores ==
    /\ pc = "write"
    /\ \/ /\ fs' = WriteFile(fs, output_fname, [kind |-> "csv", data |-> scores])
          /\ Log(Event("to_csv", output_fname, "", 0, TRUE, 0))
          /\ pc' = "done"
       \/ /\ Fail
          /\ Log(Event("to_csv", output_fname, "", 0, FALSE, 0))
          /\ UNCHANGED fs
    /\ UNCHANGED <<labels, n_splits, train_size, f, pre, projected_X, i_model,
                   subjects, i_split, sfPerms, split, ds, scores_split, scores,
                   warnings, enc, aug>>

NoEnc == [Y_t |-> <<>>, called |-> FALSE, out |-> None]
NoAug == [clf |-> None, direct |-> None, op |-> "", args |-> <<>>,
          res |-> None, ref |-> None]

\* The arguments of one do_classif call and the files present before it:
\* nothing, or some array already stored under the path do_classif loads
Init ==
    /\ labels \in LabelTables
    /\ n_splits \in 1..MaxSplits
    /\ train_size \in 1..(MaxSubjects - 1)
    /\ f \in {None, fDup}
    /\ fs \in {NoFiles,
               WriteFile(NoFiles, FeatureMatrixPath, [kind |-> "npy", data |-> StaleArray])}
    /\ pre = [ran |-> FALSE, output_path |-> <<>>, X_test |-> None]
    /\ pc = "start"
    /\ projected_X = None
    /\ i_model = 1
    /\ subjects = <<>>
    /\ i_split = 0
    /\ sfPerms = <<>>
    /\ split = [train |-> <<>>, test |-> <<>>]
    /\ ds = NoLocals
    /\ scores_split = <<>>
    /\ scores = <<>>
    /\ warnings = 0
    /\ trace = <<>>
    /\ enc = NoEnc
    /\ aug = NoAug

Next ==
    \/ PreProject
    \/ LoadFeatures
    \/ ForModel
    \/ NextSplit
    \/ Preprocess
    \/ Fit
    \/ Dump
    \/ Score
    \/ Collect
    \/ WriteScores

Spec == Init /\ [][Next]_vars

-----------------------------------------------------------------------------
(* preprocess_label on its own: one call without a dictionary *)

InitLabel ==
    /\ enc \in [Y_t : WideLabelTables, called : {FALSE}, out : {None}]
    /\ aug = NoAug
    /\ labels = <<>>
    /\ n_splits = 1
    /\ train_size = 1
    /\ f = None
    /\ fs = NoFiles
    /\ pre = [ran |-> FALSE, output_path |-> <<>>, X_test |-> None]
    /\ pc = "idle"
    /\ projected_X = None
    /\ i_model = 1
    /\ subjects = <<>>
    /\ i_split = 0
    /\ sfPerms = <<>>
    /\ split = [train |-> <<>>, test |-> <<>>]
    /\ ds = NoLocals
    /\ scores_split = <<>>
    /\ scores = <<>>
    /\ warnings = 0
    /\ trace = <<>>

\* Y, Y_dict = preprocess_label(Y_t, return_dict=True)
EncodeLabels ==
    /\ ~enc.called
    /\ enc' = [enc EXCEPT !.called = TRUE,
                          !.out = preprocess_label(enc.Y_t, None, TRUE)]
    /\ UNCHANGED <<classifVars, aug>>

NextLabel == EncodeLabels

SpecLabel == InitLabel /\ [][NextLabel]_vars

-----------------------------------------------------------------------------
(* AugmentedClassifier on its own, next to its wrapped model used directly *)

InitAug ==
    /\ \E m \in Range(models), fn \in {None, fDup} :
          aug = [clf |-> AugmentedClassifier(m.model, fn), direct |-> m.model,
                 op |-> "", args |-> <<>>, res |-> None, ref |-> None]
    /\ enc = NoEnc
    /\ labels = <<>>
    /\ n_splits = 1
    /\ train_size = 1
    /\ f = None
    /\ fs = NoFiles
    /\ pre = [ran |-> FALSE, output_path |-> <<>>, X_test |-> None]
    /\ pc = "idle"
    /\ projected_X = None
    /\ i_model = 1
    /\ subjects = <<>>
    /\ i_split = 0
    /\ sfPerms = <<>>
    /\ split = [train |-> <<>>, test |-> <<>>]
    /\ ds = NoLocals
    /\ scores_split = <<>>
    /\ scores = <<>>
    /\ warnings = 0
    /\ trace = <<>>

\* The arguments the wrapped model's own operation receives when the
\* model is used directly: fit on f(X, Y) when there is an f, else as called
DirectArgs(op, X, Y, fn) ==
    IF op = "predict" THEN <<X>>
    ELSE IF op = "fit" /\ fn # None THEN ApplyF(fn, X, Y)
    ELSE <<X, Y>>

\* One call clf.<op>(*args) and the same operation on the model used directly
Call(op, args, X, Y) ==
    LET r == AugCall(aug.clf, op, args)
        d == ModelCall(aug.direct, op, DirectArgs(op, X, Y, aug.clf.f))
    IN /\ aug' = [clf |-> [aug.clf EXCEPT !.model = r.model], direct |-> d.model,
                  op |-> op, args |-> args, res |-> r.result, ref |-> d.result]
       /\ UNCHANGED <<classifVars, enc>>

CallFit == \E X \in XArrays, Y \in YArrays : Call("fit", <<X, Y>>, X, Y)

CallPredict ==
    \E X \in XArrays, Y \in YArrays :
        \E args \in {<<X>>, <<X, Y>>} : Call("predict", args, X, Y)

CallScore == \E X \in XArrays, Y \in YArrays : Call("score", <<X, Y>>, X, Y)

NextAug == CallFit \/ CallPredict \/ CallScore

SpecAug == InitAug /\ [][NextAug]_vars

-----------------------------------------------------------------------------
(* Vocabulary of the properties, stated on the inputs and not through the
   operators of the model *)

SubjectSet(idx) == {subjects[i + 1] : i \in Range(idx)}

RowsOf(S) == {r \in 1..Len(labels) : labels[r].subject \in S}

ContrastsOf(Y, S) ==
    LET sel == SelectSeq(Y, LAMBDA row : row.subject \in S)
    IN [i \in 1..Len(sel) |-> sel[i].contrast]

FirstIndex(col, v) ==
    CHOOSE i \in 1..Len(col) : col[i] = v /\ \A j \in 1..(i - 1) : col[j] # v

\* The code of v: how many distinct values occur before its first occurrence
FirstOccCode(col, v) == Cardinality({col[j] : j \in 1..(FirstIndex(col, v) - 1)})

Codes(col) == [i \in 1..Len(col) |-> FirstOccCode(col, col[i])]

CodeTable(col) == [v \in Range(col) |-> FirstOccCode(col, v)]

TrainContrasts == ContrastsOf(labels, SubjectSet(split.train))
TestContrasts == ContrastsOf(labels, SubjectSet(split.test))

InDoSplit == pc \in {"fit", "dump", "score"}

TrainRows == {r \in 1..Len(ds.train) : ds.train[r]}
TestRows == {r \in 1..Len(ds.test) : ds.test[r]}

EventsOf(ev) == {k \in 1..Len(trace) : trace[k].ev = ev /\ trace[k].ok}

CatalogNames == {"LDA", "RF"}

ExpectedCheckpoint(name, i) == <<"models", "/", name, "_", Digit[i + 1], ".pkl">>

CheckpointFiles == {p \in DOMAIN fs : fs[p].kind = "pkl"}

-----------------------------------------------------------------------------
(* Properties *)

\* C1: in every split of do_classif the train and test row masks of do_split
\* are disjoint, no subject has rows in both, and their union is exactly the
\* rows whose subject is in the split's train or test subject set.
C1_MasksPartitionBySubject ==
    InDoSplit =>
        /\ Len(ds.train) = Len(labels) /\ Len(ds.test) = Len(labels)
        /\ TrainRows \cap TestRows = {}
        /\ \A r \in TrainRows, q \in TestRows : labels[r].subject # labels[q].subject
        /\ TrainRows = RowsOf(SubjectSet(split.train))
        /\ TestRows = RowsOf(SubjectSet(split.test))
        /\ TrainRows \cup TestRows = RowsOf(SubjectSet(split.train) \cup SubjectSet(split.test))

C1_Witness ==
    /\ InDoSplit
    /\ Len(labels) = 3
    /\ labels[1].subject = labels[3].subject
    /\ labels[2].subject # labels[1].subject
    /\ TrainRows = {2}
    /\ TestRows = {1, 3}

\* C2: when the test subset of a split has a contrast value absent from the
\* training subset, do_split does not abort: it logs one warning, encodes the
\* test labels with a dictionary built from the test subset alone, keeps the
\* training labels and the training dictionary, and goes on to fit.
C2_UnseenTestLabel == pc = "preprocess" /\ ~(Range(TestContrasts) \subseteq Range(TrainContrasts))

C2_FallbackStep ==
    C2_UnseenTestLabel =>
        /\ pc' = "fit"
        /\ warnings' = warnings + 1
        /\ ds'.Y_test = Codes(TestContrasts)
        /\ ds'.Y_train = Codes(TrainContrasts)
        /\ ds'.labels_dict = CodeTable(TrainContrasts)

C2_FallbackProceeds == [][C2_FallbackStep]_vars

C2_Witness ==
    /\ pc = "done"
    /\ warnings > 0
    /\ Len(fs[output_fname].data) = 2 * n_splits
    /\ \E i \in 1..Len(TestContrasts) : TestContrasts[i] \notin Range(TrainContrasts)

\* C3 as stated: every test label handed to score is the code the training
\* dictionary assigns to the row's contrast value.
C3_TestUsesTrainDict ==
    pc = "score" =>
        \A i \in 1..Len(TestContrasts) :
            /\ TestContrasts[i] \in DOMAIN ds.labels_dict
            /\ ds.Y_test[i] = ds.labels_dict[TestContrasts[i]]

\* C3 amended: in every split whose test subset has only contrast values that
\* occur in the training subset, the dictionary built from the training subset
\* encodes the test subset too, so a shared contrast value has one code in
\* Y_train and Y_test.
C3_SharedDictWhenCovered ==
    (pc = "score" /\ Range(TestContrasts) \subseteq Range(TrainContrasts)) =>
        /\ ds.labels_dict = CodeTable(TrainContrasts)
        /\ Len(ds.Y_test) = Len(TestContrasts)
        /\ \A i \in 1..Len(TestContrasts) :
              ds.Y_test[i] = ds.labels_dict[TestContrasts[i]]
        /\ \A i \in 1..Len(TestContrasts), j \in 1..Len(TrainContrasts) :
              TestContrasts[i] = TrainContrasts[j] => ds.Y_test[i] = ds.Y_train[j]

C3_Witness ==
    /\ pc = "score"
    /\ TrainContrasts = <<"A", "B">>
    /\ TestContrasts = <<"B">>
    /\ ds.Y_test = <<1>>

C5_ResultsOnlyAtEnd ==
    /\ pc # "done" => output_fname \notin DOMAIN fs
    /\ Cardinality({k \in 1..Len(trace) : trace[k].ev = "to_csv"}) <= 1
    /\ output_fname \in DOMAIN fs =>
          /\ Len(fs[output_fname].data) = 2 * n_splits
          /\ \A name \in CatalogNames, i \in 0..(n_splits - 1) :
                \E e \in EventsOf("score") : trace[e].algo = name /\ trace[e].split = i

C5_Witness ==
    /\ pc = "failed"
    /\ Cardinality(EventsOf("score")) >= 2
    /\ output_fname \notin DOMAIN fs

\* C6: each (model, split) pair writes its checkpoint to
\* {models_dir}/{model_name}_{split_index}.pkl, no two pairs of a run write the
\* same path, a completed run has written exactly one checkpoint per pair, and
\* no checkpoint is read back.
C6_CheckpointPaths ==
    /\ \A k \in 1..Len(trace) :
          trace[k].ev = "dump" =>
              trace[k].path = ExpectedCheckpoint(trace[k].algo, trace[k].split)
    /\ \A k, l \in EventsOf("dump") : k # l => trace[k].path # trace[l].path
    /\ \A k \in 1..Len(trace) :
          trace[k].ev = "np.load" => \A l \in EventsOf("dump") : trace[l].path # trace[k].path
    /\ pc = "done" =>
          /\ CheckpointFiles =
                {ExpectedCheckpoint(name, i) : name \in CatalogNames, i \in 0..(n_splits - 1)}
          /\ Cardinality(CheckpointFiles) = 2 * n_splits
          /\ Cardinality(EventsOf("dump")) = 2 * n_splits

C6_Witness ==
    /\ pc = "done"
    /\ n_splits = 2
    /\ Cardinality(CheckpointFiles) = 4
    /\ <<"models", "/", "RF", "_", "1", ".pkl">> \in DOMAIN fs

\* C9: after the pre-projection driver has run with its default output path,
\* the feature matrix do_classif loads is the array that driver saved.
C9_LoadsWhatPreProjectionSaved ==
    (pre.ran /\ pre.output_path = DefaultOutputPath) =>
        \A k \in 1..Len(trace) :
            trace[k].ev = "np.load" => trace[k].ok /\ trace[k].value = pre.X_test

\* C10: for every (model, split) pair the blocking calls happen in the order
\* fit, checkpoint write, score; pairs run one after another, splits in
\* increasing index order and all splits of a model before the next model; so
\* when a score is computed or fails, its checkpoint is already written.
IsPipelineEvent(e) == e.ev \in {"fit", "dump", "score"}

C10_FitDumpScoreInOrder ==
    LET calls == SelectSeq(trace, IsPipelineEvent)
        order == <<"fit", "dump", "score">>
        names == <<"LDA", "RF">>
    IN /\ Len(calls) <= 3 * 2 * n_splits
       /\ \A k \in 1..Len(calls) :
             /\ calls[k].ev = order[((k - 1) % 3) + 1]
             /\ calls[k].split = ((k - 1) \div 3) % n_splits
             /\ calls[k].algo = names[(((k - 1) \div 3) \div n_splits) + 1]
             /\ k < Len(calls) => calls[k].ok
             /\ calls[k].ev = "score" =>
                   ExpectedCheckpoint(calls[k].algo, calls[k].split) \in DOMAIN fs
       /\ pc = "score" => ds.checkpoint_name \in DOMAIN fs

C10_Witness ==
    /\ pc = "failed"
    /\ n_splits = 2
    /\ Len(SelectSeq(trace, IsPipelineEvent)) = 12
    /\ ~trace[Len(trace)].ok
    /\ trace[Len(trace)].ev = "score"

\* C8: preprocess_label without a dictionary maps the k distinct contrast
\* values, in first-occurrence order, one-to-one onto 0..k-1 and returns, row
\* by row, the code of each row; decoding the output gives back the contrasts.
C8_EncodeRoundTrip ==
    enc.called =>
        LET col == [i \in 1..Len(enc.Y_t) |-> enc.Y_t[i].contrast]
            k == Cardinality(Range(col))
            Y == enc.out.value[1]
            D == enc.out.value[2]
        IN /\ enc.out.exc = "none"
           /\ DOMAIN D = Range(col)
           /\ {D[v] : v \in DOMAIN D} = 0..(k - 1)
           /\ \A v, w \in DOMAIN D :
                 /\ v # w => D[v] # D[w]
                 /\ FirstIndex(col, v) < FirstIndex(col, w) => D[v] < D[w]
           /\ Len(Y) = Len(col)
           /\ \A i \in 1..Len(col) :
                 /\ Y[i] = D[col[i]]
                 /\ (CHOOSE v \in DOMAIN D : D[v] = Y[i]) = col[i]

C8_Witness ==
    /\ enc.called
    /\ [i \in 1..Len(enc.Y_t) |-> enc.Y_t[i].contrast] = <<"A", "B", "A", "C">>
    /\ enc.out.value[1] = <<0, 1, 0, 2>>
    /\ enc.out.value[2] = [v \in {"A", "B", "C"} |-> IF v = "A" THEN 0 ELSE IF v = "B" THEN 1 ELSE 2]

\* C7: an AugmentedClassifier behaves as its wrapped model used directly: each
\* of fit, predict and score hands the wrapped model's own operation the
\* arguments it takes (f(X, Y) for fit when there is an f) and returns its result.
C7_SameAsWrappedModel ==
    aug.op # "" =>
        /\ aug.res = aug.ref
        /\ aug.clf.model = aug.direct

====
